---- MODULE Spec2Model ----
(***************************************************************************)
(* Model of src/main.py: the unread-mail -> model -> spreadsheet pipeline. *)
(* Text is modelled as sequences of one-character strings so that strip,   *)
(* lower, substring tests and first-character tests are computed.          *)
(***************************************************************************)
EXTENDS Integers, Sequences, FiniteSets, TLC

\* ------------------------------------------------------------------ bounds
NumMsgs == 2
MaxRuns == 2
MaxPages == 3
MaxPageLen == 2
MaxContacts == 2

\* ------------------------------------------------------- program constants
\* ollama_output[:100] in the fallback summary
RawPrefixLen == 100

VARIABLES
  \* configuration and the two external stores
  flag,                     \* MARK_AS_READ_AFTER_PROCESSING
  unread,                   \* mailbox: message id -> carries the UNREAD label
  sheet,                    \* spreadsheet: the appended rows, in order
  \* main(): position and locals
  pc, run, messages, idx, email_data,
  successful_processed, failed_processed, emails_marked_read,
  sheet_updates_successful, sheet_updates_failed,
  \* get_all_unread_messages(): the server's pages and the loop's locals
  pages, all_messages, next_page_token, page_count, errAt,
  \* history of the current run and of earlier runs (observation only)
  log, rowsBefore, appendedEver, markedEver,
  \* a single call of a pure function: its argument and its result
  arg, ret

counterVars == <<successful_processed, failed_processed, emails_marked_read,
                 sheet_updates_successful, sheet_updates_failed>>
listVars == <<pages, all_messages, next_page_token, page_count, errAt>>
mainVars == <<pc, run, messages, idx, email_data>>
storeVars == <<flag, unread, sheet>>
histVars == <<log, rowsBefore, appendedEver, markedEver>>
callVars == <<arg, ret>>
vars == <<storeVars, mainVars, counterVars, listVars, histVars, callVars>>

\* ------------------------------------------------------------ text helpers
WS == {" ", "\t", "\n", "\r"}
Digits == {"0", "1", "2", "3", "4", "5", "6", "7", "8", "9"}
Uppers == <<"A","B","C","D","E","F","G","H","I","J","K","L","M",
            "N","O","P","Q","R","S","T","U","V","W","X","Y","Z">>
Lowers == <<"a","b","c","d","e","f","g","h","i","j","k","l","m",
            "n","o","p","q","r","s","t","u","v","w","x","y","z">>

LowerChar(c) ==
  IF \E i \in 1..26 : Uppers[i] = c
  THEN Lowers[CHOOSE i \in 1..26 : Uppers[i] = c]
  ELSE c

\* str.lower()
Lower(s) == [i \in 1..Len(s) |-> LowerChar(s[i])]

\* str.strip()
Strip(s) ==
  LET keep == {i \in 1..Len(s) : s[i] \notin WS}
  IN IF keep = {} THEN <<>>
     ELSE LET lo == CHOOSE i \in keep : \A j \in keep : i <= j
              hi == CHOOSE i \in keep : \A j \in keep : j <= i
          IN SubSeq(s, lo, hi)

\* word in s
Contains(s, w) ==
  \E i \in 1..(Len(s) - Len(w) + 1) : SubSeq(s, i, i + Len(w) - 1) = w

\* s[:n]
Prefix(s, n) == SubSeq(s, 1, IF Len(s) < n THEN Len(s) ELSE n)

\* s[n:]
Suffix(s, n) == SubSeq(s, n + 1, Len(s))

\* ''.join(filter(str.isdigit, s))
DigitsOf(s) == SelectSeq(s, LAMBDA c : c \in Digits)

\* --------------------------------------------------- JSON values (json.loads)
\* A value is [t, v]: its type tag and its content; a number's content is the
\* text str() gives for it. "absent" stands for a key the object lacks.
Absent == [t |-> "absent", v |-> <<>>]
Null == [t |-> "null", v |-> <<>>]
Str(s) == [t |-> "str", v |-> s]
Num(s) == [t |-> "num", v |-> s]
List(xs) == [t |-> "list", v |-> xs]
Obj(name, email, phone) == [t |-> "obj", v |-> [name |-> name, email |-> email, phone |-> phone]]

\* dict.get(key, default)
Get(j, default) == IF j.t = "absent" THEN default ELSE j

\* bool(x)
Truthy(j) ==
  CASE j.t = "str" -> j.v # <<>>
    [] j.t = "num" -> j.v # <<"0">>
    [] j.t = "list" -> j.v # <<>>
    [] j.t = "obj" -> TRUE
    [] OTHER -> FALSE

\* The outcome of a call: the value returned, or the exception raised.
Return(x) == [exc |-> "none", val |-> x]
Raise(e) == [exc |-> e, val |-> <<>>]
\* A block that ends without a return statement.
NoReturn == [exc |-> "noreturn", val |-> <<>>]
\* A call not made yet.
Pending == [exc |-> "pending", val |-> <<>>]

\* ------------------------------------------------- parse_ollama_response
requesting == <<"r","e","q","u","e","s","t","i","n","g">>
providing == <<"p","r","o","v","i","d","i","n","g">>
unknown == <<"u","n","k","n","o","w","n">>
NoSummaryProvided == <<"N","o"," ","s","u","m","m","a","r","y"," ","p","r","o","v","i","d","e","d">>
ParsingFailed == <<"P","a","r","s","i","n","g"," ","f","a","i","l","e","d"," ","-"," ","R","a","w"," ","o","u","t","p","u","t",":"," ">>
RequestWords == {<<"r","e","q","u","e","s","t">>, <<"n","e","e","d">>, <<"l","o","o","k","i","n","g">>, <<"s","e","e","k","i","n","g">>}
ProvideWords == {<<"p","r","o","v","i","d">>, <<"o","f","f","e","r">>, <<"a","v","a","i","l","a","b","l","e">>, <<"h","e","l","p">>}

\* lines 184-190: assistance_type is standardized
Standardize(at) ==
  IF at \in {requesting, providing} THEN at
  ELSE IF \E w \in RequestWords : Contains(at, w) THEN requesting
  ELSE IF \E w \in ProvideWords : Contains(at, w) THEN providing
  ELSE unknown

\* lines 175-177: str(contact.get(k, '')).strip() if contact.get(k) else ''
CleanField(j) == IF Truthy(j) THEN Strip(j.v) ELSE <<>>

\* lines 174-178
CleanContact(c) ==
  [name |-> CleanField(c.v.name), email |-> CleanField(c.v.email),
   phone |-> CleanField(c.v.phone)]

\* lines 170-181: dicts only, and only those with a non-empty field
RECURSIVE CleanContacts(_)
CleanContacts(cs) ==
  IF cs = <<>> THEN <<>>
  ELSE LET c == Head(cs)
           rest == CleanContacts(Tail(cs))
       IN IF c.t # "obj" THEN rest
          ELSE LET cc == CleanContact(c)
               IN IF cc.name # <<>> \/ cc.email # <<>> \/ cc.phone # <<>>
                  THEN <<cc>> \o rest
                  ELSE rest

\* lines 204-209
Fallback(o) ==
  [summary |-> ParsingFailed \o Prefix(o.text, RawPrefixLen),
   contacts |-> <<>>,
   assistance_type |-> unknown]

\* lines 153-196: the body of the try block. o.match is what re.search and
\* json.loads make of the text: no {...} at all, a {...} that is not JSON, or
\* an object with these three keys (each possibly absent).
ParseBody(o) ==
  IF o.match = "none" THEN NoReturn
  ELSE IF o.match = "invalid" THEN Raise("JSONDecodeError")
  ELSE LET s == Get(o.summary, Str(NoSummaryProvided))
           a == Get(o.assistance_type, Str(unknown))
           raw_contacts == Get(o.contacts, List(<<>>))
       IN IF s.t # "str" \/ a.t # "str" THEN Raise("AttributeError")
          ELSE Return([summary |-> Strip(s.v),
                       contacts |-> IF raw_contacts.t = "list"
                                    THEN CleanContacts(raw_contacts.v)
                                    ELSE <<>>,
                       assistance_type |-> Standardize(Lower(Strip(a.v)))])

\* lines 198-202: the except clauses
ParseHandlersJsonOnly == {"JSONDecodeError"}

ParseHandlers == {"JSONDecodeError", "AttributeError"}

parse_ollama_response(o) ==
  LET b == ParseBody(o)
  IN IF b.exc = "none" THEN b
     ELSE IF b.exc = "noreturn" \/ b.exc \in ParseHandlers THEN Return(Fallback(o))
     ELSE b

\* --------------------------------------------------- format_phone_number
\* lines 389-391 and 395: (AAA) BBB-CCCC
TenDigits(d) ==
  <<"(">> \o SubSeq(d, 1, 3) \o <<")", " ">> \o SubSeq(d, 4, 6) \o <<"-">> \o SubSeq(d, 7, Len(d))

FormulaTriggers == {"=", "+", "-", "@"}

\* lines 403-404, 419-420, 439-442: the apostrophe put before a formula trigger
Sanitize(s) == IF s # <<>> /\ s[1] \in FormulaTriggers THEN <<"'">> \o s ELSE s

\* lines 380-405 with an empty result when the text holds no digit
format_phone_number_DigitsOnly(phone) ==
  IF phone = <<>> THEN <<>>
  ELSE LET digits == DigitsOf(phone)
       IN IF Len(digits) = 10 THEN TenDigits(digits)
          ELSE IF Len(digits) = 11 /\ digits[1] = "1" THEN TenDigits(Suffix(digits, 1))
          ELSE IF Len(digits) = 7 THEN SubSeq(digits, 1, 3) \o <<"-">> \o Suffix(digits, 3)
          ELSE Sanitize(digits)

\* lines 380-405
format_phone_number(phone) ==
  IF phone = <<>> THEN <<>>
  ELSE LET digits == DigitsOf(phone)
       IN IF Len(digits) = 10 THEN TenDigits(digits)
          ELSE IF Len(digits) = 11 /\ digits[1] = "1" THEN TenDigits(Suffix(digits, 1))
          ELSE IF Len(digits) = 7 THEN SubSeq(digits, 1, 3) \o <<"-">> \o Suffix(digits, 3)
          ELSE Sanitize(Strip(phone))

\* ------------------------------------------- append_single_email_to_sheet
\* lines 431-433: (contact.get(k) or '').strip() if contact.get(k) else ''
ContactField(s) == IF s # <<>> THEN Strip(s) ELSE <<>>

\* lines 446-454: one row, the seven columns in order
ContactRow(contact, summary, assistance_type, sent_day, email_link) ==
  << Sanitize(ContactField(contact.name)),
     Sanitize(ContactField(contact.email)),
     format_phone_number(ContactField(contact.phone)),
     summary, assistance_type, sent_day, email_link >>

\* lines 458-466
EmptyContactRow(summary, assistance_type, sent_day, email_link) ==
  << <<>>, <<>>, <<>>, summary, assistance_type, sent_day, email_link >>

\* lines 428-466 with one row for the first contact only
BuildValuesFirstOnly(d) ==
  LET summary == Sanitize(d.summary)
  IN IF d.contacts # <<>>
     THEN << ContactRow(d.contacts[1], summary, d.assistance_type, d.sent_day, d.email_link) >>
     ELSE << EmptyContactRow(summary, d.assistance_type, d.sent_day, d.email_link) >>

\* lines 411-466: values
BuildValues(d) ==
  LET summary == Sanitize(d.summary)
  IN IF d.contacts # <<>>
     THEN [i \in 1..Len(d.contacts) |->
             ContactRow(d.contacts[i], summary, d.assistance_type, d.sent_day, d.email_link)]
     ELSE << EmptyContactRow(summary, d.assistance_type, d.sent_day, d.email_link) >>

\* line 587: the permalink of a message
LinkPrefix == <<"h","t","t","p","s",":","/","/","m","a","i","l",".","g","o","o","g","l","e",".","c","o","m","/","m","a","i","l","/","u","/","0","/","#","i","n","b","o","x","/">>
EmailLink(id) == LinkPrefix \o <<ToString(id)>>

\* ------------------------------------------------ get_all_unread_messages
\* A page of the listing: [hasMessages, messages, nextPageToken]; the token of
\* page k is k, and 0 is no token.
Page(has, ms, tok) == [hasMessages |-> has, messages |-> ms, nextPageToken |-> tok]

\* line 348: results.get('messages', [])
PageMessages(p) == IF p.hasMessages THEN p.messages ELSE <<>>

\* lines 334-346: the page the server returns for the current token
RequestedPage == IF next_page_token # 0 THEN pages[next_page_token] ELSE pages[1]

\* lines 329-355 with the page's messages replacing the accumulated ones
ListPageOverwrite ==
  /\ pc = "list"
  /\ page_count' = page_count + 1
  /\ all_messages' = PageMessages(RequestedPage)
  /\ next_page_token' = RequestedPage.nextPageToken
  /\ pc' = IF RequestedPage.nextPageToken = 0 THEN "listed" ELSE "list"
  /\ UNCHANGED <<pages, errAt, storeVars, run, messages, idx, email_data,
                 counterVars, histVars, callVars>>

\* lines 329-358: one iteration of the loop, the request succeeding
ListPage ==
  /\ pc = "list"
  /\ page_count' = page_count + 1
  /\ all_messages' = all_messages \o PageMessages(RequestedPage)
  /\ next_page_token' = RequestedPage.nextPageToken
  /\ pc' = IF RequestedPage.nextPageToken = 0 THEN "listed" ELSE "list"
  /\ UNCHANGED <<pages, errAt, storeVars, run, messages, idx, email_data,
                 counterVars, histVars, callVars>>

\* lines 329-332, 360-362: one iteration, the request raising
ListPageError ==
  /\ pc = "list"
  /\ page_count' = page_count + 1
  /\ errAt' = page_count + 1
  /\ pc' = "listed"
  /\ UNCHANGED <<pages, all_messages, next_page_token, storeVars, run, messages,
                 idx, email_data, counterVars, histVars, callVars>>

\* -------------------------------------------------------------- the mailbox
Msgs == 1..NumMsgs

\* What the model answers for a message, and the message's Date header as
\* extract_email_date returns it (the second one is a header that does not
\* parse and is returned raw). A message's answer and date depend on its id.
RawSamples ==
  << [text |-> <<"{",".",".",".","}">>, match |-> "object",
      summary |-> Str(<<"J","a","n","e"," ","n","e","e","d","s"," ","h","e","l","p">>),
      contacts |-> List(<< Obj(Str(<<"J","a","n","e"," ","D","o","e">>), Str(<<"j","a","n","e","@","e","x","a","m","p","l","e",".","c","o","m">>), Str(<<"5","5","5","1","2","3","4","5","6","7">>)),
                           Obj(Str(<<"=","B","o","b">>), Null, Absent) >>),
      assistance_type |-> Str(<<"r","e","q","u","e","s","t","i","n","g">>)],
     [text |-> <<"n","o"," ","j","s","o","n">>, match |-> "none",
      summary |-> Absent, contacts |-> Absent, assistance_type |-> Absent],
     [text |-> <<"{",".",".",".","}">>, match |-> "object",
      summary |-> Str(<<"J","a","n","e"," ","n","e","e","d","s"," ","h","e","l","p">>), contacts |-> List(<<>>),
      assistance_type |-> Str(<<"O","f","f","e","r","i","n","g">>)] >>
\* lines 81-102: extract_email_date. A message's Date header is absent, or
\* carries a value the date parser accepts (strftime then gives `formatted`)
\* or rejects (the value is returned as it is).
extract_email_date(h) ==
  IF ~h.present THEN <<>>
  ELSE IF h.parses THEN h.formatted
  ELSE h.value

DateHeaders ==
  << [present |-> TRUE, value |-> <<"W","e","d",","," ","2","5"," ","D","e","c"," ","2","0","2","4"," ","1","0",":","3","0",":","0","0"," ","+","0","0","0","0">>, parses |-> TRUE, formatted |-> <<"2","0","2","4","-","1","2","-","2","5"," ","1","0",":","3","0",":","0","0">>],
     [present |-> TRUE, value |-> <<"=","2","5","/","1","2">>, parses |-> FALSE, formatted |-> <<>>] >>
DateSamples == [i \in 1..Len(DateHeaders) |-> extract_email_date(DateHeaders[i])]
MessageRaw(m) == RawSamples[((m - 1) % Len(RawSamples)) + 1]
MessageDate(m) == DateSamples[((m - 1) % Len(DateSamples)) + 1]

\* The answer to a query that lacks is:unread: every message.
AllList == [i \in 1..NumMsgs |-> i]

\* The server's answer to the query 'subject:"..." is:unread': the unread
\* messages in id order, cut into pages of sz.
UnreadList == SelectSeq([i \in 1..NumMsgs |-> i], LAMBDA m : unread[m])
Split(list, sz) ==
  IF list = <<>> THEN << Page(FALSE, <<>>, 0) >>
  ELSE LET n == (Len(list) + sz - 1) \div sz
       IN [k \in 1..n |->
             Page(TRUE,
                  SubSeq(list, (k - 1) * sz + 1, IF k * sz < Len(list) THEN k * sz ELSE Len(list)),
                  IF k < n THEN k + 1 ELSE 0)]

\* -------------------------------------------------------------------- main
NoPages == << Page(FALSE, <<>>, 0) >>
NoData == [email_link |-> <<>>, summary |-> <<>>, contacts |-> <<>>,
           assistance_type |-> <<>>, sent_day |-> <<>>]
Ev(e, m) == [ev |-> e, id |-> m]
Current == messages[idx]
InLoop == pc = "fetch" /\ idx <= Len(messages)

\* lines 502-546, the setup succeeding: the query is sent
StartRun ==
  /\ pc = "start"
  /\ \E sz \in 1..MaxPageLen : pages' = Split(UnreadList, sz)
  /\ all_messages' = <<>>
  /\ next_page_token' = 0
  /\ page_count' = 0
  /\ errAt' = 0
  /\ pc' = "list"
  /\ UNCHANGED <<storeVars, run, messages, idx, email_data, counterVars, histVars, callVars>>

\* lines 504-508, 526-530, 539-541: credentials, services or sheet access fail
SetupFails ==
  /\ pc = "start"
  /\ pc' = "ended"
  /\ UNCHANGED <<storeVars, run, messages, idx, email_data, counterVars, listVars,
                 histVars, callVars>>

\* line 365: the locals of get_all_unread_messages end with its return
ListLocalsGone ==
  /\ pages' = NoPages
  /\ all_messages' = <<>>
  /\ next_page_token' = 0
  /\ page_count' = 0
  /\ errAt' = 0

\* lines 548-563: the listing is returned, the counters start at 0
AfterList ==
  /\ pc = "listed"
  /\ messages' = all_messages
  /\ idx' = 1
  /\ pc' = IF all_messages = <<>> THEN "ended" ELSE "fetch"
  /\ successful_processed' = 0
  /\ failed_processed' = 0
  /\ emails_marked_read' = 0
  /\ sheet_updates_successful' = 0
  /\ sheet_updates_failed' = 0
  /\ log' = <<>>
  /\ rowsBefore' = Len(sheet)
  /\ ListLocalsGone
  /\ UNCHANGED <<storeVars, run, email_data, appendedEver, markedEver, callVars>>

\* lines 627-630 with the count left out
FailedNotCounted(e) ==
  /\ idx' = idx + 1
  /\ log' = Append(log, Ev(e, Current))
  /\ UNCHANGED <<storeVars, pc, run, messages, email_data, counterVars,
                 listVars, rowsBefore, appendedEver, markedEver, callVars>>

\* lines 627-630 and 580-581: failed_processed is counted, on to the next
\* message; the log tells a raised step ("raised") from an empty body
Failed(e) ==
  /\ failed_processed' = failed_processed + 1
  /\ idx' = idx + 1
  /\ log' = Append(log, Ev(e, Current))
  /\ UNCHANGED <<storeVars, pc, run, messages, email_data, successful_processed,
                 emails_marked_read, sheet_updates_successful, sheet_updates_failed,
                 listVars, rowsBefore, appendedEver, markedEver, callVars>>

\* line 568 raising
GetRaises == InLoop /\ Failed("raised")

\* lines 568-574 with the skipped message counted as failed
NoLongerUnreadCounted == InLoop /\ ~unread[Current] /\ Failed("not_unread")

\* lines 568-574
NoLongerUnread ==
  /\ InLoop
  /\ ~unread[Current]
  /\ idx' = idx + 1
  /\ log' = Append(log, Ev("not_unread", Current))
  /\ UNCHANGED <<storeVars, pc, run, messages, email_data, counterVars, listVars,
                 rowsBefore, appendedEver, markedEver, callVars>>

\* line 577 raising
ContentRaises == InLoop /\ unread[Current] /\ Failed("raised")

\* lines 577-581
NoContent == InLoop /\ unread[Current] /\ Failed("no_content")

\* line 593 raising
ModelRaises == InLoop /\ unread[Current] /\ Failed("raised")

\* lines 568-604, every step succeeding
Summarized ==
  /\ InLoop
  /\ unread[Current]
  /\ LET parsed_data == parse_ollama_response(MessageRaw(Current))
     IN IF parsed_data.exc # "none" THEN Failed("raised")
        ELSE /\ email_data' = [email_link |-> EmailLink(Current),
                               summary |-> parsed_data.val.summary,
                               contacts |-> parsed_data.val.contacts,
                               assistance_type |-> parsed_data.val.assistance_type,
                               sent_day |-> MessageDate(Current)]
             /\ pc' = "append"
             /\ UNCHANGED <<storeVars, run, messages, idx, counterVars, listVars,
                            histVars, callVars>>

\* lines 608 and 614 with the test of the append's result dropped
ShouldMarkAnyResult(appended) == flag

\* lines 608 and 614 with the test of the flag dropped
ShouldMarkAnyFlag(appended) == appended

\* lines 608 and 614: mark_email_as_read is called
ShouldMark(appended) == appended /\ flag

\* after lines 608-622 with mark_email_as_read called in every case
ProceedToMark(appended) ==
  /\ pc' = "mark"
  /\ idx' = idx

\* after lines 608-622: on to mark_email_as_read, or to the next message
Proceed(appended) ==
  /\ pc' = IF ShouldMark(appended) THEN "mark" ELSE "fetch"
  /\ idx' = IF ShouldMark(appended) THEN idx ELSE idx + 1

\* lines 407-489 and 608-611 with the rows written at the top of the table
AppendOkAtTop ==
  /\ pc = "append"
  /\ sheet' = BuildValues(email_data) \o sheet
  /\ sheet_updates_successful' = sheet_updates_successful + 1
  /\ successful_processed' = successful_processed + 1
  /\ log' = Append(log, Ev("append_true", Current))
  /\ appendedEver' = [appendedEver EXCEPT ![Current] = @ + 1]
  /\ Proceed(TRUE)
  /\ UNCHANGED <<flag, unread, run, messages, email_data, failed_processed,
                 emails_marked_read, sheet_updates_failed, listVars, rowsBefore,
                 markedEver, callVars>>

\* lines 407-489 and 608-611: the rows are appended
AppendOk ==
  /\ pc = "append"
  /\ sheet' = sheet \o BuildValues(email_data)
  /\ sheet_updates_successful' = sheet_updates_successful + 1
  /\ successful_processed' = successful_processed + 1
  /\ log' = Append(log, Ev("append_true", Current))
  /\ appendedEver' = [appendedEver EXCEPT ![Current] = @ + 1]
  /\ Proceed(TRUE)
  /\ UNCHANGED <<flag, unread, run, messages, email_data, failed_processed,
                 emails_marked_read, sheet_updates_failed, listVars, rowsBefore,
                 markedEver, callVars>>

\* lines 478-496 and 619-621: the append request raises
AppendFails ==
  /\ pc = "append"
  /\ sheet_updates_failed' = sheet_updates_failed + 1
  /\ log' = Append(log, Ev("append_false", Current))
  /\ Proceed(FALSE)
  /\ UNCHANGED <<storeVars, run, messages, email_data, successful_processed,
                 failed_processed, emails_marked_read, sheet_updates_successful,
                 listVars, rowsBefore, appendedEver, markedEver, callVars>>

\* lines 367-375 and 615-617 with a request that leaves the label in place
MarkOkKeepsLabel ==
  /\ pc = "mark"
  /\ emails_marked_read' = emails_marked_read + 1
  /\ log' = Append(log, Ev("mark_true", Current))
  /\ markedEver' = markedEver \cup {Current}
  /\ pc' = "fetch"
  /\ idx' = idx + 1
  /\ UNCHANGED <<storeVars, run, messages, email_data, successful_processed,
                 failed_processed, sheet_updates_successful, sheet_updates_failed,
                 listVars, rowsBefore, appendedEver, callVars>>

\* lines 367-375 and 615-617
MarkOk ==
  /\ pc = "mark"
  /\ unread' = [unread EXCEPT ![Current] = FALSE]
  /\ emails_marked_read' = emails_marked_read + 1
  /\ log' = Append(log, Ev("mark_true", Current))
  /\ markedEver' = markedEver \cup {Current}
  /\ pc' = "fetch"
  /\ idx' = idx + 1
  /\ UNCHANGED <<flag, sheet, run, messages, email_data, successful_processed,
                 failed_processed, sheet_updates_successful, sheet_updates_failed,
                 listVars, rowsBefore, appendedEver, callVars>>

\* lines 367-378 and 614-616 with the failed call counted as marked
MarkFailsCounted ==
  /\ pc = "mark"
  /\ emails_marked_read' = emails_marked_read + 1
  /\ log' = Append(log, Ev("mark_false", Current))
  /\ pc' = "fetch"
  /\ idx' = idx + 1
  /\ UNCHANGED <<storeVars, run, messages, email_data, successful_processed,
                 failed_processed, sheet_updates_successful, sheet_updates_failed,
                 listVars, rowsBefore, appendedEver, markedEver, callVars>>

\* lines 367-378 and 615: the modify request raises
MarkFails ==
  /\ pc = "mark"
  /\ log' = Append(log, Ev("mark_false", Current))
  /\ pc' = "fetch"
  /\ idx' = idx + 1
  /\ UNCHANGED <<storeVars, run, messages, email_data, counterVars, listVars,
                 rowsBefore, appendedEver, markedEver, callVars>>

\* lines 632-645
FinalSummary ==
  /\ pc = "fetch"
  /\ idx > Len(messages)
  /\ pc' = "summary"
  /\ UNCHANGED <<storeVars, run, messages, idx, email_data, counterVars, listVars,
                 histVars, callVars>>

LogHas(e, m) == \E k \in 1..Len(log) : log[k] = Ev(e, m)

\* lines 647-648: the process is started again
NextRun ==
  /\ pc \in {"summary", "ended"}
  /\ run < MaxRuns
  /\ run' = run + 1
  /\ pc' = "start"
  /\ messages' = <<>>
  /\ idx' = 1
  /\ email_data' = NoData
  /\ UNCHANGED <<storeVars, counterVars, listVars, histVars, callVars>>

\* lines 570-574: another actor reads a message
ExternalRead ==
  /\ pc # "off"
  /\ \E m \in Msgs :
       /\ unread[m]
       /\ unread' = [unread EXCEPT ![m] = FALSE]
  /\ UNCHANGED <<flag, sheet, mainVars, counterVars, listVars, histVars, callVars>>

Init ==
  /\ flag \in BOOLEAN
  /\ unread = [m \in Msgs |-> TRUE]
  /\ sheet = <<>>
  /\ pc = "start"
  /\ run = 1
  /\ messages = <<>>
  /\ idx = 1
  /\ email_data = NoData
  /\ successful_processed = 0
  /\ failed_processed = 0
  /\ emails_marked_read = 0
  /\ sheet_updates_successful = 0
  /\ sheet_updates_failed = 0
  /\ pages = NoPages
  /\ all_messages = <<>>
  /\ next_page_token = 0
  /\ page_count = 0
  /\ errAt = 0
  /\ log = <<>>
  /\ rowsBefore = 0
  /\ appendedEver = [m \in Msgs |-> 0]
  /\ markedEver = {}
  /\ arg = <<>>
  /\ ret = Pending

Next ==
  \/ StartRun \/ SetupFails \/ ListPage \/ ListPageError \/ AfterList
  \/ GetRaises \/ NoLongerUnread \/ ContentRaises \/ NoContent \/ ModelRaises
  \/ Summarized \/ AppendOk \/ AppendFails \/ MarkOk \/ MarkFails
  \/ FinalSummary \/ NextRun \/ ExternalRead

Spec == Init /\ [][Next]_vars

\* ------------------------------------------ get_all_unread_messages, alone
\* The server's pages: n pages chained by their tokens, the last one without
\* a token; page k holds lens[k] fresh ids, or has no 'messages' key (-1).
RECURSIVE IdsBefore(_, _)
IdsBefore(lens, k) ==
  IF k = 1 THEN 0
  ELSE IdsBefore(lens, k - 1) + (IF lens[k - 1] < 0 THEN 0 ELSE lens[k - 1])

PagesOf(lens) ==
  [k \in 1..Len(lens) |->
     Page(lens[k] >= 0,
          [i \in 1..(IF lens[k] < 0 THEN 0 ELSE lens[k]) |-> IdsBefore(lens, k) + i],
          IF k < Len(lens) THEN k + 1 ELSE 0)]

ListInputs ==
  UNION {{PagesOf(lens) : lens \in [1..n -> -1..MaxPageLen]} : n \in 1..MaxPages}

\* Values of the variables a specification does not use.
MainIdle ==
  /\ run = 1
  /\ messages = <<>>
  /\ idx = 1
  /\ email_data = NoData
CountersIdle ==
  /\ successful_processed = 0
  /\ failed_processed = 0
  /\ emails_marked_read = 0
  /\ sheet_updates_successful = 0
  /\ sheet_updates_failed = 0
ListIdle ==
  /\ pages = NoPages
  /\ all_messages = <<>>
  /\ next_page_token = 0
  /\ page_count = 0
  /\ errAt = 0
HistIdle ==
  /\ log = <<>>
  /\ rowsBefore = 0
  /\ appendedEver = [m \in Msgs |-> 0]
  /\ markedEver = {}
StoreIdle ==
  /\ unread = [m \in Msgs |-> TRUE]
  /\ sheet = <<>>
CallIdle ==
  /\ arg = <<>>
  /\ ret = Pending

InitList ==
  /\ pc = "list"
  /\ pages \in ListInputs
  /\ all_messages = <<>>
  /\ next_page_token = 0
  /\ page_count = 0
  /\ errAt = 0
  /\ flag = TRUE
  /\ StoreIdle /\ MainIdle /\ CountersIdle /\ HistIdle /\ CallIdle

NextList == ListPage \/ ListPageError

SpecList == InitList /\ [][NextList]_vars

\* -------------------------------------------- parse_ollama_response, alone
LongText == [i \in 1..(RawPrefixLen + 3) |-> "x"]
AssistanceSamples ==
  { Absent, Null, Num(<<"1">>),
    Str(<<"r","e","q","u","e","s","t","i","n","g">>), Str(<<"P","r","o","v","i","d","i","n","g"," ">>), Str(<<" ","R","E","Q","U","E","S","T","I","N","G">>), Str(<<"I"," ","n","e","e","d"," ","h","e","l","p">>), Str(<<"o","f","f","e","r","i","n","g"," ","h","e","l","p">>), Str(<<"h","e","l","p","f","u","l">>), Str(<<"n","/","a">>), Str(<<>>),
    Str(<<"b","o","t","h">>), Str(<<"S","e","e","k","i","n","g">>), Str(<<"A","v","a","i","l","a","b","l","e"," ","n","o","w">>), Str(<<"r","e","q","u","e","s","t","/","p","r","o","v","i","d","e">>) }
SummarySamples == { Absent, Null, Str(<<"J","a","n","e"," ","n","e","e","d","s"," ","h","e","l","p">>), Str(<<" ","=","S","U","M","(","A","1",")"," ">>) }
ContactSamples ==
  { Obj(Str(<<"J","a","n","e"," ","D","o","e">>), Str(<<"j","a","n","e","@","e","x","a","m","p","l","e",".","c","o","m">>), Str(<<"5","5","5","1","2","3","4","5","6","7">>)),
    Obj(Null, Absent, Str(<<" ">>)),
    Obj(Num(<<"5">>), Null, Num(<<"0">>)),
    Str(<<"J","a","n","e"," ","D","o","e">>) }
ContactLists ==
  UNION {[1..n -> ContactSamples] : n \in 0..MaxContacts}
ContactsSamples == { Absent, Null, Str(<<"J","a","n","e"," ","D","o","e">>) } \cup {List(cs) : cs \in ContactLists}

ParseInputs ==
  { [text |-> LongText, match |-> "none",
     summary |-> Absent, contacts |-> Absent, assistance_type |-> Absent],
    [text |-> <<"{","o","o","p","s","}">>, match |-> "invalid",
     summary |-> Absent, contacts |-> Absent, assistance_type |-> Absent] }
  \cup [text : {<<"{",".",".",".","}">>}, match : {"object"}, summary : SummarySamples,
        contacts : ContactsSamples, assistance_type : AssistanceSamples]

InitParse ==
  /\ pc = "call"
  /\ arg \in ParseInputs
  /\ ret = Pending
  /\ flag = TRUE
  /\ StoreIdle /\ MainIdle /\ CountersIdle /\ ListIdle /\ HistIdle

\* line 594
ParseCall ==
  /\ pc = "call"
  /\ ret' = parse_ollama_response(arg)
  /\ pc' = "returned"
  /\ UNCHANGED <<arg, storeVars, run, messages, idx, email_data, counterVars,
                 listVars, histVars>>

SpecParse == InitParse /\ [][ParseCall]_vars

\* ------------------------------------- append_single_email_to_sheet, alone
\* email_data as main builds it: the contacts are those parse_ollama_response
\* keeps (stripped text, not all three fields empty).
CleanNames == { <<>>, <<"J","a","n","e"," ","D","o","e">>, <<"=","B","o","b">> }
CleanEmails == { <<>>, <<"j","a","n","e","@","e","x","a","m","p","l","e",".","c","o","m">> }
CleanPhones == { <<>>, <<"5","5","5","1","2","3","4","5","6","7">>, <<"+","1"," ","(","5","5","5",")"," ","1","2","3","-","4","5","6","7">>, <<"-","5","5","5">> }
CleanContactsSet ==
  { c \in [name : CleanNames, email : CleanEmails, phone : CleanPhones] :
      c.name # <<>> \/ c.email # <<>> \/ c.phone # <<>> }
RowInputs ==
  [email_link : {EmailLink(1)},
   summary : {<<"J","a","n","e"," ","n","e","e","d","s"," ","h","e","l","p">>, <<"=","S","U","M","(","A","1",")">>},
   contacts : UNION {[1..n -> CleanContactsSet] : n \in 0..MaxContacts},
   assistance_type : {requesting},
   sent_day : {<<"2","0","2","4","-","1","2","-","2","5"," ","1","0",":","3","0",":","0","0">>}]

InitRows ==
  /\ pc = "append"
  /\ email_data \in RowInputs
  /\ messages = <<1>>
  /\ idx = 1
  /\ run = 1
  /\ flag = FALSE
  /\ StoreIdle /\ CountersIdle /\ ListIdle /\ HistIdle /\ CallIdle

NextRows == AppendOk \/ AppendFails

SpecRows == InitRows /\ [][NextRows]_vars

\* ----------------------------------------------- format_phone_number, alone
\* The longest text drawn freely from PhoneChars; the examples are longer.
MaxPhoneLen == 3
PhoneChars == {"1", "5", "a", " ", "+"}
PhoneExamples ==
  { <<"1","2","3","4","5","6","7","8","9","0">>,
    <<"1","1","2","3","4","5","6","7","8","9","0">>,
    <<"1","2","3","4","5","6","7">>,
    <<"a","b","c">>,
    <<"5","5","5","1","2","3">>,
    <<"+","1"," ","(","5","5","5",")"," ","1","2","3","-","4","5","6","7">> }
PhoneInputs ==
  PhoneExamples \cup UNION {[1..n -> PhoneChars] : n \in 0..MaxPhoneLen}

InitPhone ==
  /\ pc = "call"
  /\ arg \in PhoneInputs
  /\ ret = Pending
  /\ flag = TRUE
  /\ StoreIdle /\ MainIdle /\ CountersIdle /\ ListIdle /\ HistIdle

\* line 436: the call, with any text for its argument
PhoneCall ==
  /\ pc = "call"
  /\ ret' = Return(format_phone_number(arg))
  /\ pc' = "returned"
  /\ UNCHANGED <<arg, storeVars, run, messages, idx, email_data, counterVars,
                 listVars, histVars>>

SpecPhone == InitPhone /\ [][PhoneCall]_vars

\* ================================================================ claims
MarkEvents == {"mark_true", "mark_false"}
IsMark(k) == log[k].ev \in MarkEvents

\* C1 (unread gate): every call of mark_email_as_read in a run comes after a
\* successful append for the same message in that run, whose rows are in the
\* sheet; the call is never made, nor about to be made, without one.
C1_UnreadGate ==
  /\ \A k \in 1..Len(log) :
       IsMark(k) =>
         /\ \E j \in 1..(k - 1) : log[j] = Ev("append_true", log[k].id)
         /\ \E r \in 1..Len(sheet) : sheet[r][7] = EmailLink(log[k].id)
  /\ pc = "mark" => LogHas("append_true", Current)
  /\ \A m \in markedEver : appendedEver[m] >= 1

C1_Witness ==
  \E m \in Msgs : LogHas("mark_true", m) /\ ~unread[m] /\ pc = "summary"

\* The call of mark_email_as_read follows the append logged at k.
MarkFollows(k) ==
  IF k = Len(log) THEN pc = "mark"
  ELSE IsMark(k + 1) /\ log[k + 1].id = log[k].id

\* C2 as stated: whatever the configuration, mark_email_as_read is called
\* for a message exactly when its append returned True.
C2_Original ==
  \A k \in 1..Len(log) :
    /\ log[k].ev = "append_true" => MarkFollows(k)
    /\ IsMark(k) => k > 1 /\ log[k - 1] = Ev("append_true", log[k].id)

\* C2 amended: mark_email_as_read is called for a message exactly when its
\* append returned True and MARK_AS_READ_AFTER_PROCESSING is set.
C2_MarkIffAppendedAndFlag ==
  \A k \in 1..Len(log) :
    /\ log[k].ev = "append_true" => (MarkFollows(k) <=> flag)
    /\ log[k].ev \in {"append_false", "raised", "no_content", "not_unread"} => ~MarkFollows(k)
    /\ IsMark(k) => flag /\ k > 1 /\ log[k - 1] = Ev("append_true", log[k].id)

C2_Witness ==
  \E m \in Msgs : LogHas("append_true", m) /\ LogHas("mark_false", m) /\ pc = "summary"

RowsOf(m, sh) == Cardinality({r \in 1..Len(sh) : sh[r][7] = EmailLink(m)})

Listed(m) == \E i \in 1..Len(all_messages) : all_messages[i] = m

\* C4 as stated: a message whose append returned False is in the next
\* listing, and a message appended and marked read is not.
C4_Original ==
  pc = "listed" =>
    \A m \in Msgs :
      /\ LogHas("append_false", m) => Listed(m)
      /\ m \in markedEver => ~Listed(m)

\* C4 amended: the pipeline never removes the UNREAD label of a message whose
\* append returned False, so that message is unread at the end of the run
\* unless another actor read it; while it is unread, every later listing that
\* ends without a page error holds it. A message marked read by the pipeline
\* is in no later listing.
C4_FailedStaysListed ==
  \A m \in Msgs :
    /\ LogHas("append_false", m) =>
         /\ m \notin markedEver
         /\ ~LogHas("mark_true", m) /\ ~LogHas("mark_false", m)
    /\ (pc = "listed" /\ errAt = 0 /\ LogHas("append_false", m) /\ unread[m]) => Listed(m)
    /\ (pc = "listed" /\ m \in markedEver) => ~Listed(m)

C4_Witness ==
  /\ pc = "listed"
  /\ errAt = 0
  /\ \E m \in Msgs : LogHas("append_false", m) /\ unread[m] /\ Listed(m)
  /\ \E m \in markedEver : LogHas("mark_true", m) /\ ~Listed(m)

CountEvents(es) == Cardinality({k \in 1..Len(log) : log[k].ev \in es})

\* The events that end the processing of a message, and the messages they
\* ended, in order.
EndEvents == {"raised", "no_content", "not_unread", "append_true", "append_false"}
Ended == SelectSeq(log, LAMBDA e : e.ev \in EndEvents)
EndedIds == [k \in 1..Len(Ended) |-> Ended[k].id]

\* One step of the loop of main, or the summary after it.
LoopStep ==
  \/ GetRaises \/ NoLongerUnread \/ ContentRaises \/ NoContent \/ ModelRaises
  \/ Summarized \/ AppendOk \/ AppendFails \/ MarkOk \/ MarkFails \/ FinalSummary

InRun == pc \in {"fetch", "append", "mark", "summary"}

\* C5 as stated: every message in which a step raised, the row write
\* included, adds exactly one to failed_processed.
C5_Original ==
  InRun => failed_processed = CountEvents({"raised", "no_content", "append_false"})

\* C5 amended: a raise in the fetch, the content extraction or the model call
\* is caught at the per-message boundary and adds exactly one to
\* failed_processed (as does an empty body); a raise in the row build or
\* write is caught inside append_single_email_to_sheet and adds one to
\* sheet_updates_failed instead. Whatever fails, the loop goes on: the
\* messages are attempted once each in listing order, a next step is always
\* possible, and the summary comes after all of them.
C5_FailureIsolation ==
  InRun =>
    /\ failed_processed = CountEvents({"raised", "no_content"})
    /\ sheet_updates_failed = CountEvents({"append_false"})
    /\ EndedIds = SubSeq(messages, 1, IF pc = "mark" THEN idx ELSE idx - 1)
    /\ pc # "summary" => ENABLED LoopStep
    /\ pc = "summary" => EndedIds = messages

C5_Witness ==
  /\ pc = "summary"
  /\ Len(messages) >= 2
  /\ log[1].ev = "raised"
  /\ log[2].ev = "append_false"
  /\ failed_processed = 1
  /\ sheet_updates_failed = 1

\* C6: with MARK_AS_READ_AFTER_PROCESSING false mark_email_as_read is never
\* called and nothing is counted as marked read, whatever the appends do.
C6_FlagOffNeverMarks ==
  ~flag =>
    /\ pc # "mark"
    /\ \A k \in 1..Len(log) : ~IsMark(k)
    /\ emails_marked_read = 0
    /\ markedEver = {}

C6_Witness ==
  /\ ~flag
  /\ pc = "summary"
  /\ \E m \in Msgs : LogHas("append_true", m) /\ unread[m]

\* The rows appended in this run, by their links, and a message's place in
\* the listing.
RunLinks == [k \in 1..(Len(sheet) - rowsBefore) |-> sheet[rowsBefore + k][7]]
PlaceOf(link) == CHOOSE i \in 1..Len(messages) : EmailLink(messages[i]) = link

\* C7: the rows appended during a run are those of listed messages, lie in
\* listing order, and the rows of one message are one contiguous block.
C7_RowsInListingOrder ==
  InRun =>
    /\ Len(sheet) >= rowsBefore
    /\ \A k \in 1..Len(RunLinks) :
         \E i \in 1..Len(messages) : EmailLink(messages[i]) = RunLinks[k]
    /\ \A j, k \in 1..Len(RunLinks) :
         j < k => PlaceOf(RunLinks[j]) <= PlaceOf(RunLinks[k])

C7_Witness ==
  /\ pc = "summary"
  /\ rowsBefore > 0
  /\ Len(RunLinks) >= 3
  /\ RunLinks[1] # RunLinks[Len(RunLinks)]

\* The messages of pages 1..k, in order.
RECURSIVE ConcatPages(_)
ConcatPages(k) ==
  IF k = 0 THEN <<>> ELSE ConcatPages(k - 1) \o PageMessages(pages[k])

\* The first page that carries no token.
LastPage ==
  CHOOSE k \in 1..Len(pages) :
    /\ pages[k].nextPageToken = 0
    /\ \A j \in 1..(k - 1) : pages[j].nextPageToken # 0

\* C8: get_all_unread_messages returns the messages of the pages up to the
\* first one without a token, in order; when a request raises it returns
\* those of the pages before the failing request, and it always returns.
C8_ListIsConcatenation ==
  /\ pc \in {"list", "listed"}
  /\ pc = "listed" =>
       all_messages = ConcatPages(IF errAt > 0 THEN errAt - 1 ELSE LastPage)
  /\ pc = "listed" /\ errAt > 0 => page_count = errAt
  /\ pc = "listed" /\ errAt = 0 => page_count = LastPage

\* Pages of 2, 2 and 1 messages (500, 500 and 200 at full scale) give all 5.
C8_Witness ==
  /\ pc = "listed"
  /\ errAt = 0
  /\ Len(pages) = 3
  /\ Len(pages[1].messages) = 2 /\ Len(pages[2].messages) = 2
  /\ Len(pages[3].messages) = 1
  /\ all_messages = <<1, 2, 3, 4, 5>>

C8_ErrorCase ==
  /\ pc = "listed"
  /\ errAt = 3
  /\ all_messages = <<1, 2, 3, 4>>

\* C9: parse_ollama_response returns for every model output, never raising,
\* and the record's assistance_type is requesting, providing or unknown.
C9_AssistanceTypeEnum ==
  pc = "returned" =>
    /\ ret.exc = "none"
    /\ ret.val.assistance_type \in {requesting, providing, unknown}

C9_Witness ==
  /\ pc = "returned"
  /\ arg.match = "object"
  /\ arg.assistance_type = Null
  /\ arg.summary.t = "str"
  /\ ret.exc = "none"
  /\ ret.val.assistance_type = unknown

C9_Heuristic ==
  /\ pc = "returned"
  /\ arg.assistance_type = Str(<<"I"," ","n","e","e","d"," ","h","e","l","p">>)
  /\ ret.val.assistance_type = requesting

Max(a, b) == IF a > b THEN a ELSE b
Escaped(s) == <<"'">> \o s

\* C10: a record with N contacts gives max(1, N) rows of seven fields; row i
\* carries contact i, and every row the same summary, assistance type, sent
\* date and link; with no contact the one row has empty Name, Email, Phone.
C10_RowFanOut ==
  LogHas("append_true", 1) =>
    LET d == email_data
        N == Len(d.contacts)
        rows == SubSeq(sheet, rowsBefore + 1, Len(sheet))
    IN /\ Len(rows) = Max(1, N)
       /\ \A i \in 1..Len(rows) :
            /\ Len(rows[i]) = 7
            /\ rows[i][4] \in {d.summary, Escaped(d.summary)}
            /\ rows[i][4] = rows[1][4]
            /\ rows[i][5] = d.assistance_type
            /\ rows[i][6] = d.sent_day
            /\ rows[i][7] = d.email_link
       /\ N = 0 => rows[1][1] = <<>> /\ rows[1][2] = <<>> /\ rows[1][3] = <<>>
       /\ N >= 1 =>
            \A i \in 1..N :
              /\ rows[i][1] \in {d.contacts[i].name, Escaped(d.contacts[i].name)}
              /\ rows[i][2] \in {d.contacts[i].email, Escaped(d.contacts[i].email)}
              /\ DigitsOf(d.contacts[i].phone) # <<>> =>
                   \E k \in 0..1 : DigitsOf(rows[i][3]) = Suffix(DigitsOf(d.contacts[i].phone), k)
              /\ (rows[i][3] = <<>>) <=> (d.contacts[i].phone = <<>>)

C10_Witness ==
  /\ LogHas("append_true", 1)
  /\ Len(email_data.contacts) = 2
  /\ email_data.contacts[1] # email_data.contacts[2]
  /\ Len(sheet) = 2
  /\ sheet[1][1] = <<"J","a","n","e"," ","D","o","e">>
  /\ sheet[2][1] = Escaped(<<"=","B","o","b">>)

C10_NoContact ==
  /\ LogHas("append_true", 1)
  /\ email_data.contacts = <<>>
  /\ Len(sheet) = 1

Cells == {<<r, c>> : r \in 1..Len(sheet), c \in 1..7}
StartsWithTrigger(s) == s # <<>> /\ s[1] \in FormulaTriggers

\* C11: no cell of a row written to the spreadsheet begins with one of the
\* formula triggers =, +, -, @; a value that began with one is stored behind
\* an apostrophe.
C11_NoTriggerCell ==
  \A rc \in Cells : ~StartsWithTrigger(sheet[rc[1]][rc[2]])

\* The columns the code does escape: all but Sent Date.
C11_EscapedColumns ==
  \A rc \in Cells : rc[2] # 6 => ~StartsWithTrigger(sheet[rc[1]][rc[2]])

Phone(in, out) == arg = in => ret = Return(out)

\* C12 as stated: the five examples of format_phone_number, the text "abc"
\* giving the empty text.
C12_Original ==
  pc = "returned" =>
    /\ Phone(<<"1","2","3","4","5","6","7","8","9","0">>, <<"(","1","2","3",")"," ","4","5","6","-","7","8","9","0">>)
    /\ Phone(<<"1","1","2","3","4","5","6","7","8","9","0">>, <<"(","1","2","3",")"," ","4","5","6","-","7","8","9","0">>)
    /\ Phone(<<"1","2","3","4","5","6","7">>, <<"1","2","3","-","4","5","6","7">>)
    /\ Phone(<<"a","b","c">>, <<>>)
    /\ Phone(<<"5","5","5","1","2","3">>, <<"5","5","5","1","2","3">>)

\* C12: format_phone_number gives (123) 456-7890 for ten digits and for eleven
\* digits led by 1, 123-4567 for seven digits, and for any other count of
\* digits the text it was given, stripped: 555123 for 555123 and abc for abc.
\* The result is empty only for a text that is empty or all white space.
C12_PhoneExamples ==
  pc = "returned" =>
    /\ Phone(<<"1","2","3","4","5","6","7","8","9","0">>, <<"(","1","2","3",")"," ","4","5","6","-","7","8","9","0">>)
    /\ Phone(<<"1","1","2","3","4","5","6","7","8","9","0">>, <<"(","1","2","3",")"," ","4","5","6","-","7","8","9","0">>)
    /\ Phone(<<"1","2","3","4","5","6","7">>, <<"1","2","3","-","4","5","6","7">>)
    /\ Phone(<<"a","b","c">>, <<"a","b","c">>)
    /\ Phone(<<"5","5","5","1","2","3">>, <<"5","5","5","1","2","3">>)
    /\ (ret.val = <<>> <=> Strip(arg) = <<>>)

C12_Witness == pc = "returned" /\ arg = <<"a","b","c">> /\ ret = Return(<<"a","b","c">>)

SkipEvents == {"not_unread", "no_content"}
\* The step that ends the current message with event e.
EndsWith(e) == InLoop /\ log' = Append(log, Ev(e, Current))
\* What no skip touches: the mailbox, the sheet, the record handed to the
\* append, and the place in the loop, which goes on to the next message.
SkipFrame ==
  /\ unread' = unread
  /\ sheet' = sheet
  /\ email_data' = email_data
  /\ appendedEver' = appendedEver
  /\ markedEver' = markedEver
  /\ pc' = "fetch"
  /\ idx' = idx + 1
  /\ successful_processed' = successful_processed
  /\ emails_marked_read' = emails_marked_read
  /\ sheet_updates_successful' = sheet_updates_successful
  /\ sheet_updates_failed' = sheet_updates_failed

\* C13: a message skipped because it no longer carries UNREAD, or because its
\* text content is empty, has no side effects: the step leaves the read state
\* of every message and the sheet as they were and goes straight to the next
\* message (no model call, no append, no mark_email_as_read), and the run holds
\* no append or mark for that message; failed_processed grows by one for the
\* empty content and no counter changes for the message no longer unread.
C13_SkipNoSideEffects ==
  /\ [][ /\ EndsWith("not_unread") =>
             SkipFrame /\ failed_processed' = failed_processed
         /\ EndsWith("no_content") =>
             SkipFrame /\ failed_processed' = failed_processed + 1 ]_vars
  /\ [](\A k \in 1..Len(log) :
          log[k].ev \in SkipEvents =>
            \A j \in 1..Len(log) : log[j].id = log[k].id => j = k)

C13_Witness ==
  /\ pc = "summary"
  /\ Len(log) = 2
  /\ log[1].ev = "not_unread"
  /\ log[2].ev = "no_content"
  /\ unread[log[2].id]
  /\ failed_processed = 1
  /\ sheet = <<>>

\* The three counters of which a message moves at most one.
Outcomes == successful_processed + failed_processed + sheet_updates_failed

\* C14: after every processed message of a run, successful_processed equals
\* sheet_updates_successful; emails_marked_read counts exactly the calls of
\* mark_email_as_read that succeeded and is at most sheet_updates_successful;
\* each message moves at most one of successful_processed, failed_processed
\* and sheet_updates_failed, their sum falling short of the messages processed
\* so far by exactly those skipped as no longer unread; and within a run no
\* counter ever decreases.
C14_RunCounters ==
  /\ [](InRun =>
          /\ successful_processed = sheet_updates_successful
          /\ sheet_updates_successful = CountEvents({"append_true"})
          /\ emails_marked_read = CountEvents({"mark_true"})
          /\ emails_marked_read <= sheet_updates_successful
          /\ failed_processed = CountEvents({"raised", "no_content"})
          /\ sheet_updates_failed = CountEvents({"append_false"})
          /\ Outcomes + CountEvents({"not_unread"}) = Len(Ended)
          /\ Outcomes <= Len(Ended)
          /\ pc = "fetch" => Len(Ended) = idx - 1)
  /\ [][ InRun /\ InRun' =>
           /\ successful_processed' >= successful_processed
           /\ failed_processed' >= failed_processed
           /\ emails_marked_read' >= emails_marked_read
           /\ sheet_updates_successful' >= sheet_updates_successful
           /\ sheet_updates_failed' >= sheet_updates_failed
           /\ Outcomes' <= Outcomes + 1
           /\ Outcomes' = Outcomes + 1 => Len(Ended') = Len(Ended) + 1 ]_vars

C14_Witness ==
  /\ pc = "summary"
  /\ Len(messages) = 2
  /\ CountEvents({"not_unread"}) = 1
  /\ CountEvents({"mark_false"}) = 1
  /\ successful_processed = 1
  /\ emails_marked_read = 0
  /\ Outcomes = 1

====
